---- MODULE Spec2Model ----
(***************************************************************************)
(* Model of lampo-jsonrpc/src/errors.rs: the Error enum, the RpcError      *)
(* struct, the From conversions between them, Display and cause.           *)
(*                                                                         *)
(* The conversions are pure functions (operators below).  They are         *)
(* exercised by a caller that owns one Error binding `err` and one         *)
(* RpcError binding `rpc`; every conversion takes its argument by value,   *)
(* so the binding it is applied to is moved out.  Every call is recorded   *)
(* in `trace` with its input and its output.                               *)
(*                                                                         *)
(* A String is the sequence of its characters' code points.                *)
(***************************************************************************)
EXTENDS Integers, Sequences, FiniteSets, TLC

VARIABLES err, rpc, trace

vars == <<err, rpc, trace>>

\* Number of calls one caller session makes.
MaxOps == 5

(***************************************************************************)
(* Strings                                                                 *)
(***************************************************************************)

\* The printable ASCII characters U+0020..U+005F and U+0061..U+007E, in code
\* point order.
AsciiLo == " !\"#$%&'()*+,-./0123456789:;<=>?@ABCDEFGHIJKLMNOPQRSTUVWXYZ[\\]^_"
AsciiHi == "abcdefghijklmnopqrstuvwxyz{|}~"

\* The code point of a printable ASCII character written as a one-character
\* literal
CodeOf(ch) ==
    IF \E i \in 1..Len(AsciiLo) : SubSeq(AsciiLo, i, i) = ch
    THEN 31 + (CHOOSE i \in 1..Len(AsciiLo) : SubSeq(AsciiLo, i, i) = ch)
    ELSE 96 + (CHOOSE i \in 1..Len(AsciiHi) : SubSeq(AsciiHi, i, i) = ch)

\* The String with the text of a literal of printable ASCII characters
Str(s) == [i \in 1..Len(s) |-> CodeOf(SubSeq(s, i, i))]

\* The character U+0060, which a literal cannot hold
Backtick == <<96>>

(***************************************************************************)
(* Values                                                                  *)
(***************************************************************************)

\* Option<T>
None == [some |-> FALSE]
Some(v) == [some |-> TRUE, val |-> v]

\* A binding whose value has been moved out (or not yet assigned).
Moved == [tag |-> "Moved"]

\* struct RpcError { code: i32, message: String, data: Option<Value> }
RpcError(code, message, data) ==
    [tag |-> "RpcError", code |-> code, message |-> message, data |-> data]

\* enum Error
Json(e) == [tag |-> "Json", e |-> e]
Io(e) == [tag |-> "Io", e |-> e]
Rpc(r) == [tag |-> "Rpc", e |-> r]
NoErrorOrResult == [tag |-> "NoErrorOrResult"]
NonceMismatch == [tag |-> "NonceMismatch"]
VersionMismatch == [tag |-> "VersionMismatch"]

UnitVariants == {NoErrorOrResult, NonceMismatch, VersionMismatch}

\* serde_json::Value, the cases used as error data
JNull == [kind |-> "Null"]
JNumber(n) == [kind |-> "Number", n |-> n]
JString(s) == [kind |-> "String", s |-> s]

(***************************************************************************)
(* Inputs handed to the conversions by the collaborators                   *)
(***************************************************************************)

\* serde_json::Error values, known by their Display text
JsonErrors ==
    { [display |-> Str("EOF while parsing an object at line 1 column 1")],
      [display |-> Str("expected value at line 1 column 1")] }

\* io::Error values, known by their Display text
IoErrors ==
    { [display |-> Str("Broken pipe (os error 32)")],
      [display |-> Str("failed to fill whole buffer")] }

\* anyhow::Error values: the chain of messages, outermost context first
AnyhowErrors ==
    { [chain |-> <<Str("disk full")>>],
      [chain |-> <<Str("unable to pay invoice"), Str("peer disconnected")>>] }

\* RpcError values decoded from a response envelope.  The third has U+001B in
\* its message and U+0000, U+00A0 in its data.
RpcErrors ==
    { RpcError(7, Str("boom"), None),
      RpcError(-1, Str("Nonce of response did not match nonce of request"),
               None),
      RpcError(-32601, Str("say \"hi\"") \o <<27>> \o Str("[0m"),
               Some(JString(Str("a\\b") \o <<0, 160>>))),
      RpcError(7, Str("boom"), Some(JNull)),
      RpcError(0, <<>>, Some(JNumber(-3))) }

(***************************************************************************)
(* Formatting: `{}` (Display) and `{:?}` (Debug) as used by format!/write! *)
(***************************************************************************)

\* The digit characters
Digits == Str("0123456789abcdef")

\* `{}` of an i32: decimal digits, a leading '-' when negative
RECURSIVE FmtNat(_)
FmtNat(n) ==
    IF n < 10 THEN <<Digits[n + 1]>>
    ELSE Append(FmtNat(n \div 10), Digits[(n % 10) + 1])

Minus == Str("-")

\* The magnitude of a negative n is split into its last digit and the rest
\* before it is negated, so that the least i32 does not overflow.
FmtI32(n) ==
    IF n >= 0 THEN FmtNat(n)
    ELSE LET last == (10 - (n % 10)) % 10
             rest == -((n + last) \div 10)
         IN  Minus \o (IF rest = 0 THEN <<>> ELSE FmtNat(rest))
                   \o <<Digits[last + 1]>>

\* `{:x}` of a code point: lower-case hexadecimal digits, no leading zero
RECURSIVE FmtHex(_)
FmtHex(n) ==
    IF n < 16 THEN <<Digits[n + 1]>>
    ELSE Append(FmtHex(n \div 16), Digits[(n % 16) + 1])

\* Whether `{:?}` writes the character as it is.  Given for the code points
\* up to U+00FF, the characters of the model's strings: not so for the
\* control characters U+0000..U+001F and U+007F..U+009F, the no-break space
\* U+00A0 and the soft hyphen U+00AD.
IsPrintable(c) ==
    CASE c \in 0..255 -> \/ c \in 32..126
                         \/ c \in 161..255 /\ c # 173

EscNul == Str("\\0")
EscTab == Str("\\t")
EscCr == Str("\\r")
EscLf == Str("\\n")
EscBackslash == Str("\\\\")
EscQuote == Str("\\\"")
EscUnicodeOpen == Str("\\u{")
EscUnicodeClose == Str("}")

\* `{:?}` of one character inside a string literal (char::escape_debug with
\* the double quote escaped and the single quote not)
EscapeChar(c) ==
    CASE c = 0 -> EscNul
      [] c = 9 -> EscTab
      [] c = 13 -> EscCr
      [] c = 10 -> EscLf
      [] c = 92 -> EscBackslash
      [] c = 34 -> EscQuote
      [] OTHER ->
            IF IsPrintable(c) THEN <<c>>
            ELSE EscUnicodeOpen \o FmtHex(c) \o EscUnicodeClose

RECURSIVE EscapeStr(_)
EscapeStr(s) ==
    IF Len(s) = 0 THEN <<>>
    ELSE EscapeChar(Head(s)) \o EscapeStr(Tail(s))

Quote == Str("\"")

\* `{:?}` of a String: quoted, with escapes
DebugStr(s) == Quote \o EscapeStr(s) \o Quote

DbgNull == Str("Null")
DbgNumberOpen == Str("Number(")
DbgStringOpen == Str("String(")
DbgSomeOpen == Str("Some(")
DbgNone == Str("None")
DbgClose == Str(")")

\* `{:?}` of a serde_json::Value
DebugValue(v) ==
    CASE v.kind = "Null" -> DbgNull
      [] v.kind = "Number" -> DbgNumberOpen \o FmtI32(v.n) \o DbgClose
      [] v.kind = "String" -> DbgStringOpen \o DebugStr(v.s) \o DbgClose

\* `{:?}` of an Option<serde_json::Value>
DebugData(d) ==
    IF d.some THEN DbgSomeOpen \o DebugValue(d.val) \o DbgClose ELSE DbgNone

DbgRpcErrorCode == Str("RpcError { code: ")
DbgMessage == Str(", message: ")
DbgData == Str(", data: ")
DbgRpcErrorClose == Str(" }")

\* `{:?}` of an RpcError, as produced by #[derive(Debug)]
DebugRpcError(r) ==
    DbgRpcErrorCode \o FmtI32(r.code)
        \o DbgMessage \o DebugStr(r.message)
        \o DbgData \o DebugData(r.data) \o DbgRpcErrorClose

\* `{e}` of a serde_json::Error or an io::Error
DisplayInner(e) == e.display

\* `{e}` of an anyhow::Error: the outermost message only
DisplayAnyhow(e) == Head(e.chain)

\* The texts of Display::fmt
TxtJson == Str("JSON decode error: ")
TxtIo == Str("IO error response: ")
TxtRpc == Str("RPC error response: ")
TxtNoErrorOrResult == Str("Malformed RPC response")
TxtNonceMismatch == Str("Nonce of response did not match nonce of request")
TxtVersionMismatch ==
    Backtick \o Str("jsonrpc") \o Backtick \o Str(" field set to non-\"2.0\"")

TxtIoReworded == Str("IO error: ")

\* fmt with the transport text of another wording
fmt_IoReworded(self) ==
    CASE self.tag = "Json" -> TxtJson \o DisplayInner(self.e)
      [] self.tag = "Io" -> TxtIoReworded \o DisplayInner(self.e)
      [] self.tag = "Rpc" -> TxtRpc \o DebugRpcError(self.e)
      [] self.tag = "NoErrorOrResult" -> TxtNoErrorOrResult
      [] self.tag = "NonceMismatch" -> TxtNonceMismatch
      [] self.tag = "VersionMismatch" -> TxtVersionMismatch

(***************************************************************************)
(* impl fmt::Display for Error                                             *)
(***************************************************************************)
fmt(self) ==
    CASE self.tag = "Json" -> TxtJson \o DisplayInner(self.e)
      [] self.tag = "Io" -> TxtIo \o DisplayInner(self.e)
      [] self.tag = "Rpc" -> TxtRpc \o DebugRpcError(self.e)
      [] self.tag = "NoErrorOrResult" -> TxtNoErrorOrResult
      [] self.tag = "NonceMismatch" -> TxtNonceMismatch
      [] self.tag = "VersionMismatch" -> TxtVersionMismatch

\* cause with the transport error exposed as well
cause_WithIo(self) ==
    CASE self.tag \in {"Json", "Io"} -> Some(self.e)
      [] OTHER -> None

(***************************************************************************)
(* impl error::Error for Error                                             *)
(***************************************************************************)
cause(self) ==
    CASE self.tag = "Json" -> Some(self.e)
      [] OTHER -> None

(***************************************************************************)
(* The From conversions                                                    *)
(***************************************************************************)

\* impl From<serde_json::Error> for Error
From_serde_json_Error(e) == Json(e)

\* From<io::Error> folding the failure into a wire error
From_io_Error_Folded(e) == Rpc(RpcError(-1, DisplayInner(e), None))

\* impl From<io::Error> for Error
From_io_Error(e) == Io(e)

\* From<RpcError> that turns a synthesized nonce error back into its variant
From_RpcError_Recovering(e) ==
    IF e = RpcError(-1, fmt(NonceMismatch), None) THEN NonceMismatch ELSE Rpc(e)

\* impl From<RpcError> for Error
From_RpcError(e) == Rpc(e)

ChainSeparator == Str(": ")

\* `{e:#}` of an anyhow::Error: the whole chain, joined by ": "
RECURSIVE JoinChain(_)
JoinChain(chain) ==
    IF Len(chain) = 1 THEN Head(chain)
    ELSE Head(chain) \o ChainSeparator \o JoinChain(Tail(chain))

\* From<anyhow::Error> formatting with `{e:#}`
From_anyhow_Error_Alternate(e) == Rpc(RpcError(-1, JoinChain(e.chain), None))

\* impl From<anyhow::Error> for Error
From_anyhow_Error(e) == Rpc(RpcError(-1, DisplayAnyhow(e), None))

\* From<Error> whose Rpc arm rebuilds the payload without its data
From_Error_NoData(value) ==
    CASE value.tag = "Rpc" -> RpcError(value.e.code, value.e.message, None)
      [] OTHER -> RpcError(-1, fmt(value), None)

\* From<Error> answering with the JSON-RPC internal-error code
From_Error_InternalCode(value) ==
    CASE value.tag = "Rpc" -> value.e
      [] OTHER -> RpcError(-32603, fmt(value), None)

\* From<Error> without the Rpc arm: every variant is formatted
From_Error_NoRpcArm(value) == RpcError(-1, fmt(value), None)

\* impl From<Error> for RpcError
From_Error(value) ==
    CASE value.tag = "Rpc" -> value.e
      [] OTHER -> RpcError(-1, fmt(value), None)

(***************************************************************************)
(* The caller                                                              *)
(***************************************************************************)

Call(op, in, out) == [op |-> op, in |-> in, out |-> out]

Init ==
    /\ err = Moved
    /\ rpc = Moved
    /\ trace = <<>>

CanCall == Len(trace) < MaxOps

\* let err = Error::from(e) with e a serde_json::Error
FromJson ==
    /\ CanCall /\ err = Moved
    /\ \E e \in JsonErrors :
        /\ err' = From_serde_json_Error(e)
        /\ trace' = Append(trace, Call("from_json", e, err'))
    /\ UNCHANGED rpc

\* let err = Error::from(e) with e an io::Error
FromIo ==
    /\ CanCall /\ err = Moved
    /\ \E e \in IoErrors :
        /\ err' = From_io_Error(e)
        /\ trace' = Append(trace, Call("from_io", e, err'))
    /\ UNCHANGED rpc

\* let err = Error::from(e) with e an anyhow::Error
FromAnyhow ==
    /\ CanCall /\ err = Moved
    /\ \E e \in AnyhowErrors :
        /\ err' = From_anyhow_Error(e)
        /\ trace' = Append(trace, Call("from_anyhow", e, err'))
    /\ UNCHANGED rpc

\* let err = Error::NonceMismatch (or another payload-free variant)
MakeUnit ==
    /\ CanCall /\ err = Moved
    /\ \E v \in UnitVariants :
        /\ err' = v
        /\ trace' = Append(trace, Call("make", v, v))
    /\ UNCHANGED rpc

\* let err = Error::from(r) with r decoded from a response envelope
FromRpcDecoded ==
    /\ CanCall /\ err = Moved
    /\ \E r \in RpcErrors :
        /\ err' = From_RpcError(r)
        /\ trace' = Append(trace, Call("from_rpc", r, err'))
    /\ UNCHANGED rpc

\* let err = Error::from(rpc): the caller's RpcError binding is moved in
FromRpcHeld ==
    /\ CanCall /\ err = Moved /\ rpc # Moved
    /\ err' = From_RpcError(rpc)
    /\ rpc' = Moved
    /\ trace' = Append(trace, Call("from_rpc", rpc, err'))

\* The conversion applied to a borrowed Error: the binding stays assigned
IntoRpcError_Borrowed ==
    /\ Len(trace) < MaxOps /\ err # Moved
    /\ rpc' = From_Error(err)
    /\ err' = err
    /\ trace' = Append(trace, Call("into_rpc", err, rpc'))

\* let rpc = RpcError::from(err): `value: Error` is taken by value
IntoRpcError ==
    /\ CanCall /\ err # Moved
    /\ rpc' = From_Error(err)
    /\ err' = Moved
    /\ trace' = Append(trace, Call("into_rpc", err, rpc'))

\* format!("{err}")
Display ==
    /\ CanCall /\ err # Moved
    /\ trace' = Append(trace, Call("display", err, fmt(err)))
    /\ UNCHANGED <<err, rpc>>

\* err.cause()
Cause ==
    /\ CanCall /\ err # Moved
    /\ trace' = Append(trace, Call("cause", err, cause(err)))
    /\ UNCHANGED <<err, rpc>>

Next ==
    \/ FromJson
    \/ FromIo
    \/ FromAnyhow
    \/ MakeUnit
    \/ FromRpcDecoded
    \/ FromRpcHeld
    \/ IntoRpcError
    \/ Display
    \/ Cause

Spec == Init /\ [][Next]_vars


(***************************************************************************)
(* Reading the trace                                                       *)
(***************************************************************************)

Calls == {trace[i] : i \in 1..Len(trace)}

Idx == 1..Len(trace)

Observers == {"display", "cause"}

\* Call j is the first call after call i that is not a mere observation,
\* so the value call i produced is the one call j consumes.
Follows(i, j) ==
    /\ i < j
    /\ trace[j].op \notin Observers
    /\ \A k \in (i + 1)..(j - 1) : trace[k].op \in Observers

(***************************************************************************)
(* Properties                                                              *)
(***************************************************************************)

\* Texts the properties expect
ExpJsonPrefix == Str("JSON decode error: ")
ExpIoPrefix == Str("IO error response: ")
ExpRpcPrefix == Str("RPC error response: ")
ExpNoErrorOrResult == Str("Malformed RPC response")
ExpNonceMismatch == Str("Nonce of response did not match nonce of request")
ExpVersionMismatch ==
    <<96>> \o Str("jsonrpc") \o <<96>> \o Str(" field set to non-\"2.0\"")
ExpIoBrokenPipe == Str("IO error response: Broken pipe (os error 32)")
ExpIoFill == Str("IO error response: failed to fill whole buffer")
ExpUnableToPay == Str("unable to pay invoice")
ExpJsonExpectedValue ==
    Str("JSON decode error: expected value at line 1 column 1")
ExpRpcEscaped ==
    Str("RPC error response: RpcError { code: -32601, message: ")
        \o Str("\"say \\\"hi\\\"\\u{1b}[0m\", data: ")
        \o Str("Some(String(\"a\\\\b\\0\\u{a0}\")) }")

\* C1: round-trip law.  An RpcError r converted to Error (From<RpcError>)
\* and that Error converted back (From<Error> for RpcError) gives a value
\* equal to r in code, message and data.
C1_RoundTrip ==
    \A i, j \in Idx :
        (Follows(i, j) /\ trace[i].op = "from_rpc" /\ trace[j].op = "into_rpc")
            => /\ trace[j].out.code = trace[i].in.code
               /\ trace[j].out.message = trace[i].in.message
               /\ trace[j].out.data = trace[i].in.data

C1_Witness ==
    \E i, j \in Idx :
        /\ Follows(i, j)
        /\ trace[i].op = "from_rpc" /\ trace[j].op = "into_rpc"
        /\ trace[i].in.data.some
        /\ trace[j].out = trace[i].in

\* C2: an Error of any variant other than Rpc converts to the RpcError with
\* code -1, message equal to the Error's Display text, and no data.
C2_NonRpcSynthesized ==
    \A c \in Calls :
        (c.op = "into_rpc" /\ c.in.tag # "Rpc")
            => /\ c.out.code = -1
               /\ c.out.message = fmt(c.in)
               /\ c.out.data = None

C2_Witness ==
    \E c \in Calls :
        /\ c.op = "into_rpc" /\ c.in.tag = "Io"
        /\ c.out = RpcError(-1, ExpIoBrokenPipe, None)

\* C3: an anyhow::Error e converts to Rpc(RpcError{code -1, message the
\* Display text of e with nothing added, data None}).
C3_OpaqueFolded ==
    \A c \in Calls :
        c.op = "from_anyhow"
            => c.out = Rpc(RpcError(-1, DisplayAnyhow(c.in), None))

C3_Witness ==
    \E c \in Calls :
        /\ c.op = "from_anyhow" /\ Len(c.in.chain) > 1
        /\ c.out = Rpc(RpcError(-1, ExpUnableToPay, None))

\* C4: From<serde_json::Error>, From<io::Error> and From<RpcError> yield the
\* Json, Io and Rpc variant respectively, each carrying the input unaltered.
C4_ClassifiedByOrigin ==
    \A c \in Calls :
        /\ c.op = "from_json" => (c.out.tag = "Json" /\ c.out.e = c.in)
        /\ c.op = "from_io" => (c.out.tag = "Io" /\ c.out.e = c.in)
        /\ c.op = "from_rpc" => (c.out.tag = "Rpc" /\ c.out.e = c.in)

C4_Witness ==
    /\ \E c \in Calls : c.op = "from_json" /\ c.out.e = c.in
    /\ \E c \in Calls : c.op = "from_io" /\ c.out.e = c.in
    /\ \E c \in Calls : c.op = "from_rpc" /\ c.out.e = c.in

\* C5: the Display text of an Error is fixed by its variant: a prefix and
\* the inner Display text for Json and Io, a prefix and the Debug rendering
\* of the payload for Rpc, and a constant text for the other three.
C5_DisplayText ==
    \A c \in Calls :
        c.op = "display" =>
            /\ c.in.tag = "Json"
                => c.out = ExpJsonPrefix \o c.in.e.display
            /\ c.in.tag = "Io"
                => c.out = ExpIoPrefix \o c.in.e.display
            /\ c.in.tag = "Rpc"
                => c.out = ExpRpcPrefix \o DebugRpcError(c.in.e)
            /\ c.in.tag = "NoErrorOrResult"
                => c.out = ExpNoErrorOrResult
            /\ c.in.tag = "NonceMismatch"
                => c.out = ExpNonceMismatch
            /\ c.in.tag = "VersionMismatch"
                => c.out = ExpVersionMismatch

C5_Witness ==
    /\ \E c \in Calls :
        /\ c.op = "display" /\ c.in.tag = "Io"
        /\ c.out = ExpIoFill
    /\ \E c \in Calls :
        /\ c.op = "display" /\ c.in.tag = "Rpc"
        /\ c.out = ExpRpcEscaped

\* C6: cause() of a Json error is its underlying decode error; cause() of
\* every other variant is None.
C6_OnlyJsonHasCause ==
    \A c \in Calls :
        c.op = "cause" =>
            /\ c.in.tag = "Json" => c.out = Some(c.in.e)
            /\ c.in.tag # "Json" => c.out = None

C6_Witness ==
    /\ \E c \in Calls : c.op = "cause" /\ c.in.tag = "Json" /\ c.out.some
    /\ \E c \in Calls : c.op = "cause" /\ c.in.tag = "Io" /\ c.out = None

\* C7: cause() exposes the underlying error of both the Json and the Io
\* variant, and None for the remaining variants.
C7_JsonAndIoHaveCause ==
    \A c \in Calls :
        c.op = "cause" =>
            /\ c.in.tag \in {"Json", "Io"} => c.out = Some(c.in.e)
            /\ c.in.tag \notin {"Json", "Io"} => c.out = None

\* C8 (as stated): an Error converted to RpcError and that RpcError converted
\* back to Error gives an Error of the same variant and payload.
C8_LosslessBothWays ==
    \A i, j \in Idx :
        (Follows(i, j) /\ trace[i].op = "into_rpc" /\ trace[j].op = "from_rpc"
            /\ trace[j].in = trace[i].out)
            => trace[j].out = trace[i].in

\* C8 (amended): an Error e converted to RpcError and back is the Rpc variant
\* wrapping the RpcError e converted to; it equals e exactly when e is itself
\* of the Rpc variant, and for every other variant it is
\* Rpc(RpcError{-1, Display text of e, None}).
C8_BackIsRpcOfWire ==
    \A i, j \in Idx :
        (Follows(i, j) /\ trace[i].op = "into_rpc" /\ trace[j].op = "from_rpc"
            /\ trace[j].in = trace[i].out)
            => /\ trace[j].out = Rpc(trace[i].out)
               /\ (trace[j].out = trace[i].in) <=> (trace[i].in.tag = "Rpc")
               /\ trace[i].in.tag # "Rpc"
                    => trace[j].out = Rpc(RpcError(-1, fmt(trace[i].in), None))

C8_Witness ==
    \E i, j \in Idx :
        /\ Follows(i, j)
        /\ trace[i].op = "into_rpc" /\ trace[j].op = "from_rpc"
        /\ trace[i].in = NonceMismatch
        /\ trace[j].in = trace[i].out
        /\ trace[j].out \in {From_RpcError(r) : r \in RpcErrors}

\* C9 (as stated): after an Error has been converted to RpcError the caller's
\* Error is unchanged and still available.
C9_InputStillAvailable ==
    (Len(trace) > 0 /\ trace[Len(trace)].op = "into_rpc")
        => err = trace[Len(trace)].in

\* C9 (amended): the conversion of an Rpc error returns a value equal to its
\* payload, and it takes the Error by value: once an Error has been converted
\* the caller's binding is moved out, for every variant.
C9_PayloadReturnedInputMoved ==
    /\ \A c \in Calls :
        (c.op = "into_rpc" /\ c.in.tag = "Rpc") => c.out = c.in.e
    /\ (Len(trace) > 0 /\ trace[Len(trace)].op = "into_rpc") => err = Moved

C9_Witness ==
    /\ Len(trace) > 0
    /\ trace[Len(trace)].op = "into_rpc"
    /\ trace[Len(trace)].in.tag = "Rpc"
    /\ trace[Len(trace)].in.e.data.some
    /\ rpc = trace[Len(trace)].in.e
    /\ err = Moved

\* C10: with r the RpcError an Error converts to, converting r to Error and
\* back to RpcError gives r again: further hops change neither code, message
\* nor data.
C10_RewrapStable ==
    \A i, j, k \in Idx :
        (/\ Follows(i, j) /\ Follows(j, k)
         /\ trace[i].op = "into_rpc"
         /\ trace[j].op = "from_rpc" /\ trace[j].in = trace[i].out
         /\ trace[k].op = "into_rpc")
            => trace[k].out = trace[i].out

C10_Witness ==
    \E i, j, k \in Idx :
        /\ Follows(i, j) /\ Follows(j, k)
        /\ trace[i].op = "into_rpc" /\ trace[i].in.tag = "Json"
        /\ trace[j].op = "from_rpc" /\ trace[j].in = trace[i].out
        /\ trace[k].op = "into_rpc"
        /\ trace[k].out.message = ExpJsonExpectedValue

====
